---- MODULE Spec2Model ----
(***************************************************************************)
(* LexiGuard: clause segmentation, per-clause analysis, risk aggregation   *)
(* and report rendering (src/lexiguard_core.py), and the "start analysis"  *)
(* handler of the front ends (src/lexiguard_web.py, src/app.py).           *)
(*                                                                         *)
(* Text is a sequence of characters.  A character is a short string; the   *)
(* CJK characters of the source have ASCII names:                          *)
(*   "DI" = U+7B2C (the "Article" prefix), "TIAO" = U+689D (the "Article"  *)
(*   suffix), "YI"/"ER" = the CJK numerals one/two, "JIA"/"YU" = ordinary  *)
(*   ideographs, "DUN" = U+3001 (enumeration comma), "FDOT" = U+FF0E       *)
(*   (full-width stop), "FLP"/"FRP" = full-width parentheses,              *)
(*   "NL" = line feed, "CR" = carriage return.                             *)
(***************************************************************************)
EXTENDS Integers, Sequences, FiniteSets, TLC

VARIABLES
    pc,          \* position of the running operation
    text,        \* the uploaded / input text
    raw,         \* segment_clauses: clauses after the line scan
    headed,      \* segment_clauses: clauses after header stripping
    clauses,     \* segment_clauses: the returned (filtered) clause list
    idx,         \* analyze_document: loop index i (1-based)
    inflight,    \* analyze_document: 0, or the index of the clause whose analyzer call is running
    started,     \* number of analyzer calls begun
    completed,   \* number of analyzer calls that returned or raised
    callLog,     \* the clause texts handed to the analyzer, in call order
    failedAt,    \* indices of the clauses whose analyzer call failed
    notified,    \* progress notifications emitted, in order: <<i, total>>
    results,     \* analyze_document: the result list
    report,      \* create_markdown_report: the clause sections, in order
    score,       \* compute_overall_risk_score: the returned score (-1: not computed)
    question,    \* follow-up: the question of the last follow-up request
    answer,      \* follow-up: the answer returned by the last follow-up request
    history,     \* follow-up: the stored question/answer turns
    generated,   \* prompts sent to the external collaborator by _generate
    piece,       \* re-segmentation: the text handed to segment_clauses again
    pieces,      \* re-segmentation: the clauses segment_clauses returns for piece
    session,     \* st.session_state: clauses, results, clause_qa, global_chat
    run          \* the number of analyses that stored their clauses in the session

vars == << pc, text, raw, headed, clauses, idx, inflight, started, completed,
           callLog, failedAt, notified, results, report, score,
           question, answer, history, generated, piece, pieces, session, run >>

segVars == << raw, headed, clauses >>
runVars == << idx, inflight, started, completed, callLog, failedAt, notified, results, report >>
chatVars == << question, answer, history, generated >>
resegVars == << piece, pieces >>
webVars == << session, run >>

-----------------------------------------------------------------------------
(* Characters and character classes                                        *)

\* [一二三四五六七八九十]
CjkNumeral == {"YI", "ER"}

\* [0-9] / \d
Digit == {"1", "2"}

\* [一二三四五六七八九十0-9]
NumeralOrDigit == CjkNumeral \cup Digit

\* [一-鿿]: the numerals, the Article prefix and suffix are ideographs too
Han == {"DI", "TIAO", "YI", "ER", "JIA", "YU"}

\* \s, and what str.strip() removes
Space == {" ", "NL", "CR"}

\* [、．.]
EnumSeparator == {"DUN", "FDOT", "."}

\* [\.．]
Stop == {".", "FDOT"}

-----------------------------------------------------------------------------
(* Sequence helpers                                                        *)

Min(a, b) == IF a < b THEN a ELSE b

Max(a, b) == IF a > b THEN a ELSE b

\* s[i:] of Python, i 1-based
From(s, i) == SubSeq(s, i, Len(s))

RECURSIVE lstrip(_)
lstrip(s) == IF s # << >> /\ Head(s) \in Space THEN lstrip(Tail(s)) ELSE s

RECURSIVE rstrip(_)
rstrip(s) ==
    IF s # << >> /\ s[Len(s)] \in Space THEN rstrip(SubSeq(s, 1, Len(s) - 1)) ELSE s

\* str.strip()
strip(s) == rstrip(lstrip(s))

\* the positions of s, in order
Positions(s) == [i \in 1 .. Len(s) |-> i]

\* str.split(sep) for a one-character separator out of seps: the pieces
\* between consecutive separators
splitOn(s, seps) ==
    LET at == SelectSeq(Positions(s), LAMBDA i : s[i] \in seps)
    IN [j \in 1 .. (Len(at) + 1) |->
           SubSeq(s, IF j = 1 THEN 1 ELSE at[j - 1] + 1,
                     IF j = Len(at) + 1 THEN Len(s) ELSE at[j] - 1)]

\* str.split('\n')
split(s) == splitOn(s, {"NL"})

\* "\n".join(lines)
RECURSIVE join(_)
join(lines) ==
    IF lines = << >> THEN << >>
    ELSE IF Len(lines) = 1 THEN lines[1]
    ELSE lines[1] \o << "NL" >> \o join(Tail(lines))

\* re.sub(r'\r\n', '\n', text): every CR that a LF follows is left out
normalize_newlines(s) ==
    LET kept == SelectSeq(Positions(s),
                          LAMBDA i : ~(s[i] = "CR" /\ i < Len(s) /\ s[i + 1] = "NL"))
    IN [j \in 1 .. Len(kept) |-> s[kept[j]]]

-----------------------------------------------------------------------------
(* Regular expressions: a pattern is a sequence of items, each a character *)
(* class with a repetition range (max = -1: unbounded).                    *)

One(set) == [set |-> set, min |-> 1, max |-> 1]
Star(set) == [set |-> set, min |-> 0, max |-> -1]
Plus(set) == [set |-> set, min |-> 1, max |-> -1]
Opt(set) == [set |-> set, min |-> 0, max |-> 1]
Rep(set, lo, hi) == [set |-> set, min |-> lo, max |-> hi]

\* pat[k..] matches s at position i (a match exists for some choice of repetitions)
RECURSIVE MatchFrom(_, _, _, _)
MatchFrom(s, i, pat, k) ==
    IF k > Len(pat) THEN TRUE
    ELSE LET item == pat[k]
             left == Len(s) - i + 1
             hi == IF item.max < 0 THEN left ELSE Min(item.max, left)
         IN \E n \in item.min .. hi :
               /\ \A j \in i .. (i + n - 1) : s[j] \in item.set
               /\ MatchFrom(s, i + n, pat, k + 1)

\* re.match(pat, s)
re_match(pat, s) == MatchFrom(s, 1, pat, 1)

\* re.search(pat, s)
re_search(pat, s) == \E i \in 1 .. (Len(s) + 1) : MatchFrom(s, i, pat, 1)

\* re.search('^' + pat, s, re.M): ^ matches at the start and after each line feed
re_search_linestart(pat, s) ==
    \E i \in 1 .. (Len(s) + 1) :
        /\ (i = 1 \/ s[i - 1] = "NL")
        /\ MatchFrom(s, i, pat, 1)

\* 第\s*[一二三四五六七八九十0-9]+\s*條
ARTICLE_RE == << One({"DI"}), Star(Space), Plus(NumeralOrDigit), Star(Space), One({"TIAO"}) >>

\* [一二三四五六七八九十]+\s*[、．.]
ENUM_RE == << Plus(CjkNumeral), Star(Space), One(EnumSeparator) >>

\* #{0,6}\s*第\s*[一二三四五六七八九十0-9]+\s*條
ARTICLE_START_RE == << Rep({"#"}, 0, 6), Star(Space) >> \o ARTICLE_RE

\* \d+\s*[\.．]
DIGIT_STOP_RE == << Plus(Digit), Star(Space), One(Stop) >>

\* [（(]?\s*[一二三四五六七八九十0-9]+\s*[)）]
PAREN_RE == << Opt({"FLP", "("}), Star(Space), Plus(NumeralOrDigit), Star(Space), One({")", "FRP"}) >>

-----------------------------------------------------------------------------
(* Segmentation                                                            *)

\* len(re.findall(r"[一-鿿]", s))
han_count(s) == Cardinality({ i \in 1 .. Len(s) : s[i] \in Han })

\* [ln.strip() for ln in s.splitlines() if ln.strip()]
\* (splitlines breaks at "\n", "\r" and "\r\n"; the empty line a "\r\n" adds
\* when broken at both characters is dropped by the filter)
stripped_lines(s) ==
    LET all == splitOn(s, {"NL", "CR"})
        kept == SelectSeq(all, LAMBDA ln : strip(ln) # << >>)
    IN [i \in 1 .. Len(kept) |-> strip(kept[i])]

startswith(s, p) == Len(s) >= Len(p) /\ SubSeq(s, 1, Len(p)) = p

endswith(s, p) == Len(s) >= Len(p) /\ SubSeq(s, Len(s) - Len(p) + 1, Len(s)) = p

\* the short-fragment rule of is_trivial_clause
short_fragment(s) == han_count(s) < 4 /\ Len(s) < 20

\* first.startswith("###") and len(lines) == 1
heading_only(lines) == startswith(lines[1], << "#", "#", "#" >>) /\ Len(lines) = 1

\* first.startswith("**") and first.endswith("**") and len(lines) == 1
bold_only(lines) ==
    /\ startswith(lines[1], << "*", "*" >>)
    /\ endswith(lines[1], << "*", "*" >>)
    /\ Len(lines) = 1

is_trivial_clause(t) ==
    LET s == strip(t)
        lines == stripped_lines(s)
    IN IF s = << >> THEN TRUE
       ELSE IF s = << "-", "-", "-" >> THEN TRUE
       ELSE IF lines = << >> THEN TRUE
       ELSE IF heading_only(lines) THEN TRUE
       ELSE IF bold_only(lines) THEN TRUE
       ELSE short_fragment(s)

detect_style(t) ==
    [has_article |-> re_search(ARTICLE_RE, t),
     has_chinese_num |-> re_search_linestart(ENUM_RE, t)]

is_clause_start(line, has_article, has_chinese_num) ==
    LET s == strip(line)
    IN IF s = << >> THEN FALSE
       ELSE IF has_article /\ re_match(ARTICLE_START_RE, s) THEN TRUE
       ELSE IF has_chinese_num /\ re_match(ENUM_RE, s) THEN TRUE
       ELSE IF ~has_article /\ ~has_chinese_num
            THEN re_match(DIGIT_STOP_RE, s) \/ re_match(PAREN_RE, s)
       ELSE FALSE

\* the for loop of segment_clauses over lines[k..], with the clauses and the
\* buffer so far; returns the clause list after the final flush
RECURSIVE scan_lines(_, _, _, _, _)
scan_lines(lines, k, style, acc, buf) ==
    IF k > Len(lines)
    THEN LET last == strip(join(buf))
         IN IF last # << >> THEN Append(acc, last) ELSE acc
    ELSE IF is_clause_start(lines[k], style.has_article, style.has_chinese_num) /\ buf # << >>
         THEN LET clause_text == strip(join(buf))
              IN scan_lines(lines, k + 1, style,
                            IF clause_text # << >> THEN Append(acc, clause_text) ELSE acc,
                            << lines[k] >>)
    ELSE scan_lines(lines, k + 1, style, acc, Append(buf, lines[k]))

\* segment_clauses up to the final flush
scan_text(t) ==
    LET normalized == normalize_newlines(t)
    IN scan_lines(split(normalized), 1, detect_style(normalized), << >>, << >>)

\* header stripping that also fires on a single clause
strip_header_single(cs) ==
    IF Len(cs) >= 1
    THEN IF ~re_search(ARTICLE_RE, cs[1]) /\ ~re_search_linestart(ENUM_RE, cs[1])
         THEN Tail(cs)
         ELSE cs
    ELSE cs

\* header stripping that looks for the Article marker only
strip_header_article_only(cs) ==
    IF Len(cs) >= 2
    THEN IF ~re_search(ARTICLE_RE, cs[1])
         THEN Tail(cs)
         ELSE cs
    ELSE cs

\* the header-stripping step of segment_clauses
strip_header(cs) ==
    IF Len(cs) >= 2
    THEN IF ~re_search(ARTICLE_RE, cs[1]) /\ ~re_search_linestart(ENUM_RE, cs[1])
         THEN Tail(cs)
         ELSE cs
    ELSE cs

\* a segment_clauses that returns the clauses unfiltered
filter_trivial_none(cs) == cs

\* the trivial filter of segment_clauses
filter_trivial(cs) == SelectSeq(cs, LAMBDA c : ~is_trivial_clause(c))

segment_clauses(t) == filter_trivial(strip_header(scan_text(t)))

-----------------------------------------------------------------------------
(* Risk levels                                                             *)

\* Python's None (a value no text equals)
None == << "<None>" >>

\* "低", "中", "高", "未知"
LOW == << "ZH_LOW" >>
MEDIUM == << "ZH_MEDIUM" >>
HIGH == << "ZH_HIGH" >>
UNKNOWN == << "ZH_UN", "ZH_KNOWN" >>

\* the mapping table of normalize_risk_level
mapping ==
    ( << "l", "o", "w" >> :> LOW ) @@ ( << "L", "o", "w" >> :> LOW ) @@
    ( << "L", "O", "W" >> :> LOW ) @@
    ( << "m", "e", "d", "i", "u", "m" >> :> MEDIUM ) @@
    ( << "M", "e", "d", "i", "u", "m" >> :> MEDIUM ) @@
    ( << "M", "E", "D", "I", "U", "M" >> :> MEDIUM ) @@
    ( << "h", "i", "g", "h" >> :> HIGH ) @@ ( << "H", "i", "g", "h" >> :> HIGH ) @@
    ( << "H", "I", "G", "H" >> :> HIGH ) @@
    ( LOW :> LOW ) @@ ( MEDIUM :> MEDIUM ) @@ ( HIGH :> HIGH )

normalize_risk_level(lv) ==
    IF lv = None THEN UNKNOWN
    ELSE LET s == strip(lv)
         IN IF s \in DOMAIN mapping THEN mapping[s]
            ELSE IF s # << >> THEN s ELSE UNKNOWN

-----------------------------------------------------------------------------
(* The analyzer: LLMClient.analyze_clause over the collaborator's reply     *)

\* risk_level values a parsed reply can carry
RiskTokens ==
    { LOW,
      << " ", "H", "i", "g", "h", " " >>,
      << "c", "r", "i", "t", "i", "c", "a", "l" >>,
      << >>,
      None }

\* what _generate can hand back: text that is no JSON, JSON that is no
\* object, or a JSON object with or without a risk_level
Contents ==
    { [json |-> "invalid"], [json |-> "nonobject"], [json |-> "object", has_level |-> FALSE] }
    \cup { [json |-> "object", has_level |-> TRUE, risk_level |-> t] : t \in RiskTokens }

\* json.loads raises JSONDecodeError (caught by analyze_clause)
IsNotJson(content) == content.json = "invalid"

\* parsed.setdefault raises on a list, number, string or null (not caught)
SetdefaultRaises(content) == content.json = "nonobject"

\* the dict analyze_clause returns: the parsed object with "" for a missing
\* field, or the fallback dict for text that is no JSON
analyze_clause(content) ==
    IF IsNotJson(content)
    THEN [risk_level |-> UNKNOWN, risk_reason |-> "not JSON: raw output"]
    ELSE [risk_level |-> IF content.has_level THEN content.risk_level ELSE << >>,
          risk_reason |-> ""]

\* the record analyze_document appends for clause c
result_record(c, analysis) ==
    [clause |-> c,
     risk_level |-> normalize_risk_level(analysis.risk_level),
     risk_reason |-> analysis.risk_reason]

\* the per-clause sections of create_markdown_report
create_markdown_report(rs) ==
    [i \in 1 .. Len(rs) |->
        [number |-> i,
         clause |-> rs[i].clause,
         risk_level |-> normalize_risk_level(rs[i].risk_level),
         risk_reason |-> rs[i].risk_reason]]

-----------------------------------------------------------------------------
(* Python floats: IEEE 754 binary64, round to nearest, ties to even.        *)
(* A non-negative float is [m, e] with value m * 2^e, m a natural number of *)
(* at most DOUBLE_PRECISION bits.  A natural number is a sequence of limbs  *)
(* below 2^20, least significant first (the mantissas exceed the integers   *)
(* of the model checker).                                                  *)

DOUBLE_PRECISION == 53

Base == 2 ^ 20

\* limb j of x, 0 beyond its length
Limb(x, j) == IF j \in 1 .. Len(x) THEN x[j] ELSE 0

\* bit i of x, i = 1 the least significant
Bit(x, i) == (Limb(x, (i - 1) \div 20 + 1) \div (2 ^ ((i - 1) % 20))) % 2

\* the number of bits of x: the position of its highest 1 bit, 0 for zero
BitLength(x) ==
    LET ones == { i \in 1 .. (20 * Len(x)) : Bit(x, i) = 1 }
    IN IF ones = {} THEN 0 ELSE CHOOSE i \in ones : \A j \in ones : j <= i

\* floor(x / 2^d)
ShiftRight(x, d) ==
    LET q == d \div 20
        r == d % 20
    IN [j \in 1 .. Len(x) |->
           (Limb(x, j + q) \div (2 ^ r)) + (Limb(x, j + q + 1) % (2 ^ r)) * (2 ^ (20 - r))]

\* x * k + c for small naturals k, c
RECURSIVE MulSmall(_, _, _)
MulSmall(x, k, c) ==
    IF x = << >> THEN (IF c = 0 THEN << >> ELSE << c >>)
    ELSE << (x[1] * k + c) % Base >> \o MulSmall(Tail(x), k, (x[1] * k + c) \div Base)

\* x + c for a small natural c
AddSmall(x, c) == MulSmall(x, 1, c)

\* x - y - borrow, for x >= y + borrow
RECURSIVE Subtract(_, _, _)
Subtract(x, y, borrow) ==
    IF x = << >> THEN << >>
    ELSE LET d == x[1] - Limb(y, 1) - borrow
         IN << d % Base >> \o Subtract(Tail(x), IF y = << >> THEN << >> ELSE Tail(y),
                                        IF d < 0 THEN 1 ELSE 0)

\* 2^k
PowerOfTwo(k) == [j \in 1 .. (k \div 20 + 1) |-> IF j = k \div 20 + 1 THEN 2 ^ (k % 20) ELSE 0]

\* x as an integer of the model checker, for x below 2^31
ToNat(x) == Limb(x, 1) + Base * Limb(x, 2)

\* x, or x plus a non-zero fraction when inexact holds, rounded to
\* DOUBLE_PRECISION significant bits: [m, e] with value m * 2^e
RoundToDouble(x, inexact) ==
    LET d == BitLength(x) - DOUBLE_PRECISION
    IN IF d <= 0 THEN [m |-> x, e |-> 0]
       ELSE LET kept == ShiftRight(x, d)
                half == Bit(x, d) = 1
                sticky == inexact \/ \E j \in 1 .. (d - 1) : Bit(x, j) = 1
                up == half /\ (sticky \/ Bit(kept, 1) = 1)
            IN [m |-> IF up THEN AddSmall(kept, 1) ELSE kept, e |-> d]

\* s / n for integers s >= n >= 1 (int / int is correctly rounded): the
\* quotient by long division to 60 binary places, then rounded
FloatDivInts(s, n) ==
    LET r0 == s % n
        r1 == (r0 * Base) % n
        r2 == (r1 * Base) % n
        r3 == (r2 * Base) % n
        quotient == << (r2 * Base) \div n, (r1 * Base) \div n, (r0 * Base) \div n, s \div n >>
        rounded == RoundToDouble(quotient, r3 # 0)
    IN [m |-> rounded.m, e |-> rounded.e - 60]

\* x - 1 for a float x in [1, 8): the difference is a multiple of x's unit in
\* the last place below 2^DOUBLE_PRECISION units, so it is exact
FloatMinusOne(x) == [m |-> Subtract(x.m, PowerOfTwo(0 - x.e), 0), e |-> x.e]

\* x / 4: exact, the exponent drops by two
FloatDivFour(x) == [m |-> x.m, e |-> x.e - 2]

\* x * k for a small natural k, rounded
FloatTimes(x, k) ==
    LET r == RoundToDouble(MulSmall(x.m, k, 0), FALSE)
    IN [m |-> r.m, e |-> x.e + r.e]

\* int(x): truncation toward zero, for x below 2^31
FloatToInt(x) ==
    IF x.e >= 0 THEN ToNat(x.m) * (2 ^ x.e) ELSE ToNat(ShiftRight(x.m, 0 - x.e))

-----------------------------------------------------------------------------
(* Score aggregation                                                       *)

score_map == ( LOW :> 1 ) @@ ( MEDIUM :> 3 ) @@ ( HIGH :> 5 )

\* the weights of the results whose normalized level is in score_map
RECURSIVE collect_scores(_)
collect_scores(rs) ==
    IF rs = << >> THEN << >>
    ELSE LET lvl == normalize_risk_level(Head(rs).risk_level)
         IN (IF lvl \in DOMAIN score_map THEN << score_map[lvl] >> ELSE << >>)
            \o collect_scores(Tail(rs))

RECURSIVE sum(_)
sum(xs) == IF xs = << >> THEN 0 ELSE Head(xs) + sum(Tail(xs))

compute_overall_risk_score(rs) ==
    LET scores == collect_scores(rs)
    IN IF scores = << >> THEN 0
       ELSE LET avg == FloatDivInts(sum(scores), Len(scores))
                normalized == FloatToInt(FloatTimes(FloatDivFour(FloatMinusOne(avg)), 100))
            IN Max(0, Min(100, normalized))

-----------------------------------------------------------------------------
(* Input documents: up to MaxLines lines, each drawn from SampleLines      *)

MaxLines == 3

SampleLines ==
    { << "DI", "YI", "TIAO", "JIA" >>,                  \* Article heading
      << "#", " ", "DI", " ", "1", "TIAO", "CR" >>,      \* Article heading, markdown, CR LF ending
      << "YI", "DUN", "JIA", "JIA", "JIA" >>,           \* CJK enumeration item
      << "1", ".", "JIA", "JIA", "JIA", "JIA" >>,       \* digit + stop item
      << "(", "1", ")", "JIA", "JIA", "JIA", "JIA" >>,  \* parenthesised item
      << "JIA", "JIA", "JIA", "JIA", "JIA", "JIA", "JIA", "JIA", "JIA", "JIA",
         "JIA", "JIA", "JIA", "JIA", "JIA" >>,          \* plain content
      << "YU", "DI", "ER", "TIAO" >>,                   \* content citing an Article
      << "-", "-", "-" >>,                              \* separator
      << >>,                                            \* empty line
      << "#", "#", "#", "JIA", "JIA", "JIA", "JIA" >>,  \* markdown heading
      << "*", "*", "JIA", "JIA", "JIA", "JIA", "*", "*" >> }  \* bold line

\* the texts of n lines
RECURSIVE TextsOf(_)
TextsOf(n) ==
    IF n = 0 THEN { << >> }
    ELSE IF n = 1 THEN SampleLines
    ELSE { l \o << "NL" >> \o t : l \in SampleLines, t \in TextsOf(n - 1) }

Docs == UNION { TextsOf(n) : n \in 0 .. MaxLines }

-----------------------------------------------------------------------------
(* Values of the variables an operation does not use                       *)

IdleSeg == raw = << >> /\ headed = << >> /\ clauses = << >>

IdleRun ==
    /\ idx = 0 /\ inflight = 0 /\ started = 0 /\ completed = 0
    /\ callLog = << >> /\ failedAt = {} /\ notified = << >>
    /\ results = << >> /\ report = << >>

IdleChat == question = << >> /\ answer = << >> /\ history = << >> /\ generated = << >>

IdleReseg == piece = << >> /\ pieces = << >>

\* a session value that may be None: Null, or Some(v) holding the value v
Null == << >>

Some(v) == << v >>

\* an empty dict
EmptyDict == [i \in {} |-> << >>]

\* the session state a first run of main sets up
NewSession ==
    [clauses |-> Null, results |-> Null, clause_qa |-> EmptyDict, global_chat |-> << >>]

IdleWeb == session = NewSession /\ run = 0

-----------------------------------------------------------------------------
(* segment_clauses, step by step                                           *)

\* the line scan and the final flush
ScanLines ==
    /\ pc = "seg_scan"
    /\ raw' = scan_text(text)
    /\ pc' = "seg_header"
    /\ UNCHANGED << text, headed, clauses, score >>
    /\ UNCHANGED runVars
    /\ UNCHANGED chatVars
    /\ UNCHANGED resegVars
    /\ UNCHANGED webVars

\* header stripping
StripHeader ==
    /\ pc = "seg_header"
    /\ headed' = strip_header(raw)
    /\ pc' = "seg_filter"
    /\ UNCHANGED << text, raw, clauses, score >>
    /\ UNCHANGED runVars
    /\ UNCHANGED chatVars
    /\ UNCHANGED resegVars
    /\ UNCHANGED webVars

\* the trivial filter and the return
FilterTrivial ==
    /\ pc = "seg_filter"
    /\ clauses' = filter_trivial(headed)
    /\ pc' = "seg_done"
    /\ UNCHANGED << text, raw, headed, score >>
    /\ UNCHANGED runVars
    /\ UNCHANGED chatVars
    /\ UNCHANGED resegVars
    /\ UNCHANGED webVars

InitSeg ==
    /\ pc = "seg_scan"
    /\ text \in Docs
    /\ score = -1
    /\ IdleSeg /\ IdleRun /\ IdleChat
    /\ IdleReseg /\ IdleWeb

NextSeg == ScanLines \/ StripHeader \/ FilterTrivial

SpecSeg == InitSeg /\ [][NextSeg]_vars

-----------------------------------------------------------------------------
(* One press of "start analysis": main of lexiguard_web.py and app.py       *)

MaxUploadLines == 3

UploadLines ==
    { << "DI", "YI", "TIAO", "JIA" >>,
      << "JIA", "JIA", "JIA", "JIA" >>,
      << "-", "-", "-" >> }

RECURSIVE UploadsOf(_)
UploadsOf(n) ==
    IF n = 0 THEN { << >> }
    ELSE IF n = 1 THEN UploadLines
    ELSE { l \o << "NL" >> \o t : l \in UploadLines, t \in UploadsOf(n - 1) }

Uploads == UNION { UploadsOf(n) : n \in 0 .. MaxUploadLines }

\* load_text_from_upload raises (unsupported or unreadable file)
LoadFails ==
    /\ pc = "pressed"
    /\ pc' = "ingest_error"
    /\ UNCHANGED << text, score >>
    /\ UNCHANGED segVars
    /\ UNCHANGED runVars
    /\ UNCHANGED chatVars
    /\ UNCHANGED resegVars
    /\ UNCHANGED webVars

\* text = load_text_from_upload(...); clauses = segment_clauses(text)
Segment ==
    /\ pc = "pressed"
    /\ raw' = scan_text(text)
    /\ headed' = strip_header(raw')
    /\ clauses' = filter_trivial(headed')
    /\ pc' = "segmented"
    /\ UNCHANGED << text, score >>
    /\ UNCHANGED runVars
    /\ UNCHANGED chatVars
    /\ UNCHANGED resegVars
    /\ UNCHANGED webVars

\* an empty check that warns and goes on
CheckEmpty_NoReturn ==
    /\ pc = "segmented"
    /\ pc' = "make_client"
    /\ UNCHANGED << text, score >>
    /\ UNCHANGED segVars
    /\ UNCHANGED runVars
    /\ UNCHANGED chatVars
    /\ UNCHANGED resegVars
    /\ UNCHANGED webVars

\* if not clauses: warning; return
CheckEmpty ==
    /\ pc = "segmented"
    /\ pc' = IF clauses = << >> THEN "halted_empty" ELSE "make_client"
    /\ UNCHANGED << text, score >>
    /\ UNCHANGED segVars
    /\ UNCHANGED runVars
    /\ UNCHANGED chatVars
    /\ UNCHANGED resegVars
    /\ UNCHANGED webVars

\* llm = LLMClient(): raises ValueError without an API key; otherwise
\* analyze_document is entered: results = [], total = len(clauses)
MakeClient ==
    /\ pc = "make_client"
    /\ \E api_key_set \in BOOLEAN :
         IF ~api_key_set
         THEN /\ pc' = "client_error"
              /\ UNCHANGED << idx, results >>
         ELSE /\ results' = << >>
              /\ idx' = 1
              /\ pc' = IF Len(clauses) >= 1 THEN "notify" ELSE "store"
    /\ UNCHANGED << text, score, inflight, started, completed, callLog, failedAt,
                    notified, report >>
    /\ UNCHANGED segVars
    /\ UNCHANGED chatVars
    /\ UNCHANGED resegVars
    /\ UNCHANGED webVars

\* an analyze_document that never invokes the callback
Notify_Never ==
    /\ pc = "notify"
    /\ pc' = "call"
    /\ UNCHANGED << text, score, idx, inflight, started, completed, callLog, failedAt,
                    notified, results, report >>
    /\ UNCHANGED segVars
    /\ UNCHANGED chatVars
    /\ UNCHANGED resegVars
    /\ UNCHANGED webVars

\* progress_callback(i, total), at the top of the loop body
Notify ==
    /\ pc = "notify"
    /\ notified' = Append(notified, << idx, Len(clauses) >>)
    /\ pc' = "call"
    /\ UNCHANGED << text, score, idx, inflight, started, completed, callLog, failedAt,
                    results, report >>
    /\ UNCHANGED segVars
    /\ UNCHANGED chatVars
    /\ UNCHANGED resegVars
    /\ UNCHANGED webVars

\* llm.analyze_clause(c) is entered and _generate posts the prompt
BeginCall ==
    /\ pc = "call"
    /\ inflight' = idx
    /\ started' = started + 1
    /\ callLog' = Append(callLog, clauses[idx])
    /\ pc' = "wait"
    /\ UNCHANGED << text, score, idx, completed, failedAt, notified, results, report >>
    /\ UNCHANGED segVars
    /\ UNCHANGED chatVars
    /\ UNCHANGED resegVars
    /\ UNCHANGED webVars

\* the exception leaves analyze_clause and analyze_document; main reports the
\* error and returns
Propagate ==
    /\ inflight' = 0
    /\ completed' = completed + 1
    /\ failedAt' = failedAt \cup {idx}
    /\ pc' = "analysis_error"
    /\ UNCHANGED << text, score, idx, started, callLog, notified, results, report >>
    /\ UNCHANGED segVars
    /\ UNCHANGED chatVars
    /\ UNCHANGED resegVars
    /\ UNCHANGED webVars

\* _generate raises: connection error, timeout, HTTP error status, a reply
\* body that is no JSON
GenerateRaises ==
    /\ pc = "wait"
    /\ Propagate

\* _generate returns content; analyze_clause parses it and analyze_document
\* appends the clause's record
GenerateReturns ==
    /\ pc = "wait"
    /\ \E content \in Contents :
         IF SetdefaultRaises(content)
         THEN Propagate
         ELSE /\ results' = Append(results, result_record(clauses[idx], analyze_clause(content)))
              /\ inflight' = 0
              /\ completed' = completed + 1
              /\ failedAt' = IF IsNotJson(content) THEN failedAt \cup {idx} ELSE failedAt
              /\ idx' = idx + 1
              /\ pc' = IF idx + 1 <= Len(clauses) THEN "notify" ELSE "store"
              /\ UNCHANGED << text, score, started, callLog, notified, report >>
              /\ UNCHANGED segVars
              /\ UNCHANGED chatVars
              /\ UNCHANGED resegVars
              /\ UNCHANGED webVars

\* analyze_document returns; the results are kept and shown
StoreResults ==
    /\ pc = "store"
    /\ pc' = "analyzed"
    /\ UNCHANGED << text, score >>
    /\ UNCHANGED segVars
    /\ UNCHANGED runVars
    /\ UNCHANGED chatVars
    /\ UNCHANGED resegVars
    /\ UNCHANGED webVars

\* report_md = create_markdown_report(results)
CreateReport ==
    /\ pc = "analyzed"
    /\ score' = compute_overall_risk_score(results)
    /\ report' = create_markdown_report(results)
    /\ pc' = "reported"
    /\ UNCHANGED << text, idx, inflight, started, completed, callLog, failedAt,
                    notified, results >>
    /\ UNCHANGED segVars
    /\ UNCHANGED chatVars
    /\ UNCHANGED resegVars
    /\ UNCHANGED webVars

Init ==
    /\ pc = "pressed"
    /\ text \in Uploads
    /\ score = -1
    /\ IdleSeg /\ IdleRun /\ IdleChat
    /\ IdleReseg /\ IdleWeb

Next ==
    \/ LoadFails
    \/ Segment
    \/ CheckEmpty
    \/ MakeClient
    \/ Notify
    \/ BeginCall
    \/ GenerateRaises
    \/ GenerateReturns
    \/ StoreResults
    \/ CreateReport

Spec == Init /\ [][Next]_vars

-----------------------------------------------------------------------------
(* compute_overall_risk_score over result lists                            *)

MaxResults == 5

\* the risk levels analyze_document can store
StoredLevels == { LOW, MEDIUM, HIGH, UNKNOWN, << "c", "r", "i", "t", "i", "c", "a", "l" >> }

RECURSIVE LevelLists(_)
LevelLists(n) ==
    IF n = 0 THEN { << >> }
    ELSE { << l >> \o t : l \in StoredLevels, t \in LevelLists(n - 1) }

ResultLists ==
    { [i \in 1 .. Len(ls) |-> [clause |-> << "JIA" >>, risk_level |-> ls[i], risk_reason |-> ""]] :
        ls \in UNION { LevelLists(n) : n \in 0 .. MaxResults } }

ComputeScore ==
    /\ pc = "score_ready"
    /\ score' = compute_overall_risk_score(results)
    /\ pc' = "scored"
    /\ UNCHANGED << text, idx, inflight, started, completed, callLog, failedAt,
                    notified, results, report >>
    /\ UNCHANGED segVars
    /\ UNCHANGED chatVars
    /\ UNCHANGED resegVars
    /\ UNCHANGED webVars

InitScore ==
    /\ pc = "score_ready"
    /\ text = << >>
    /\ score = -1
    /\ results \in ResultLists
    /\ idx = 0 /\ inflight = 0 /\ started = 0 /\ completed = 0
    /\ callLog = << >> /\ failedAt = {} /\ notified = << >> /\ report = << >>
    /\ IdleSeg /\ IdleChat
    /\ IdleReseg /\ IdleWeb

NextScore == ComputeScore

SpecScore == InitScore /\ [][NextScore]_vars

-----------------------------------------------------------------------------
(* Follow-up questions: LLMClient.answer_followup_clause / _global          *)

MaxTurns == 2

MaxPrompts == 2

\* max_history_turns of answer_followup_clause and answer_followup_global
CLAUSE_HISTORY_TURNS == 6
GLOBAL_HISTORY_TURNS == 8

\* "請先輸入你的問題。"
ASK_FIRST == << "ASK", "FIRST" >>

Questions == { None, << >>, << "NL", " " >>, << " ", "a" >> }

\* what _generate returns for a follow-up prompt
Replies == { << "o", "k" >> }

\* question = question.strip() without the "or ''" and the strip
followup_question_raw(q) == q

\* question = (question or "").strip()
followup_question(q) == IF q = None THEN << >> ELSE strip(q)

\* history[-max_turns:]
last_turns(h, max_turns) == From(h, Max(1, Len(h) - max_turns + 1))

\* the turns of the history that enter the prompt: the last max_turns, those
\* with a non-blank question and answer, stripped
prompt_turns(h, max_turns) ==
    LET recent == last_turns(h, max_turns)
        kept == SelectSeq(recent, LAMBDA t : followup_question(t.q) # << >>
                                             /\ followup_question(t.a) # << >>)
    IN [i \in 1 .. Len(kept) |->
           [q |-> followup_question(kept[i].q), a |-> followup_question(kept[i].a)]]

\* a follow-up request of the given scope with question q: the short cut on
\* a blank question, else one _generate call that returns or raises; the
\* caller appends the turn to the scope's history
Ask(scope, max_turns, q) ==
    /\ Len(history[scope]) < MaxTurns
    /\ question' = q
    /\ IF followup_question(q) = << >>
       THEN /\ answer' = ASK_FIRST
            /\ history' = [history EXCEPT ![scope] = Append(@, [q |-> q, a |-> ASK_FIRST])]
            /\ UNCHANGED generated
       ELSE /\ Len(generated) < MaxPrompts
            /\ generated' = Append(generated,
                                   [scope |-> scope,
                                    question |-> followup_question(q),
                                    turns |-> prompt_turns(history[scope], max_turns)])
            /\ \E reply \in Replies \cup { None } :
                 IF reply = None
                 THEN UNCHANGED << answer, history >>
                 ELSE /\ answer' = reply
                      /\ history' = [history EXCEPT ![scope] = Append(@, [q |-> q, a |-> reply])]
    /\ UNCHANGED << pc, text, score >>
    /\ UNCHANGED segVars
    /\ UNCHANGED runVars
    /\ UNCHANGED resegVars
    /\ UNCHANGED webVars

AskClause == \E q \in Questions : Ask("clause", CLAUSE_HISTORY_TURNS, q)

AskGlobal == \E q \in Questions : Ask("global", GLOBAL_HISTORY_TURNS, q)

InitFollowup ==
    /\ pc = "shown"
    /\ text = << >>
    /\ score = -1
    /\ question = << >>
    /\ answer = << >>
    /\ history = [clause |-> << >>, global |-> << >>]
    /\ generated = << >>
    /\ IdleSeg /\ IdleRun
    /\ IdleReseg /\ IdleWeb

NextFollowup == AskClause \/ AskGlobal

SpecFollowup == InitFollowup /\ [][NextFollowup]_vars

-----------------------------------------------------------------------------
(* Re-segmentation: segment_clauses applied to a clause it returned         *)

\* the documents: the sample lines and an indented CJK enumeration item
ResegLines == SampleLines \cup { << " ", "YI", "DUN", "JIA", "JIA", "JIA" >> }

RECURSIVE ResegTextsOf(_)
ResegTextsOf(n) ==
    IF n = 0 THEN { << >> }
    ELSE IF n = 1 THEN ResegLines
    ELSE { l \o << "NL" >> \o t : l \in ResegLines, t \in ResegTextsOf(n - 1) }

ResegDocs == UNION { ResegTextsOf(n) : n \in 0 .. MaxLines }

\* the positions where a match of pat[k..] that starts at position i of s ends
RECURSIVE MatchEnds(_, _, _, _)
MatchEnds(s, i, pat, k) ==
    IF k > Len(pat) THEN { i - 1 }
    ELSE LET item == pat[k]
             left == Len(s) - i + 1
             hi == IF item.max < 0 THEN left ELSE Min(item.max, left)
             counts == { n \in item.min .. hi : \A j \in i .. (i + n - 1) : s[j] \in item.set }
         IN UNION { MatchEnds(s, i + n, pat, k + 1) : n \in counts }

\* re.match(pat, s).end(); 0 without a match
match_end(pat, s) ==
    LET ends == MatchEnds(s, 1, pat, 1)
    IN IF ends = {} THEN 0 ELSE CHOOSE e \in ends : \A f \in ends : f <= e

\* the length of the marker that makes line a boundary under the style, in
\* the order is_clause_start tries the patterns; 0 when line is no boundary
marker_end(line, has_article, has_chinese_num) ==
    LET s == strip(line)
    IN IF has_article /\ re_match(ARTICLE_START_RE, s) THEN match_end(ARTICLE_START_RE, s)
       ELSE IF has_chinese_num /\ re_match(ENUM_RE, s) THEN match_end(ENUM_RE, s)
       ELSE IF ~has_article /\ ~has_chinese_num /\ re_match(DIGIT_STOP_RE, s)
            THEN match_end(DIGIT_STOP_RE, s)
       ELSE IF ~has_article /\ ~has_chinese_num /\ re_match(PAREN_RE, s)
            THEN match_end(PAREN_RE, s)
       ELSE 0

\* clause c of a document of the given style without its leading boundary marker
without_marker(c, style) ==
    From(c, marker_end(split(c)[1], style.has_article, style.has_chinese_num) + 1)

\* clauses = segment_clauses(text)
SegmentDocument ==
    /\ pc = "reseg_document"
    /\ raw' = scan_text(text)
    /\ headed' = strip_header(raw')
    /\ clauses' = filter_trivial(headed')
    /\ pc' = "reseg_clause"
    /\ UNCHANGED << text, score >>
    /\ UNCHANGED runVars
    /\ UNCHANGED chatVars
    /\ UNCHANGED resegVars
    /\ UNCHANGED webVars

\* segment_clauses(c) for a returned clause c, as it is or without its marker
Resegment ==
    /\ pc = "reseg_clause"
    /\ \E i \in 1 .. Len(clauses) : \E keep_marker \in BOOLEAN :
          /\ piece' = IF keep_marker THEN clauses[i]
                      ELSE without_marker(clauses[i], detect_style(normalize_newlines(text)))
          /\ pieces' = segment_clauses(piece')
          /\ pc' = IF keep_marker THEN "reseg_kept" ELSE "reseg_unmarked"
    /\ UNCHANGED << text, score >>
    /\ UNCHANGED segVars
    /\ UNCHANGED runVars
    /\ UNCHANGED chatVars
    /\ UNCHANGED webVars

InitReseg ==
    /\ pc = "reseg_document"
    /\ text \in ResegDocs
    /\ score = -1
    /\ IdleSeg /\ IdleRun /\ IdleChat
    /\ IdleReseg /\ IdleWeb

NextReseg == SegmentDocument \/ Resegment

SpecReseg == InitReseg /\ [][NextReseg]_vars

-----------------------------------------------------------------------------
(* The session of the web front end: main of lexiguard_web.py over several  *)
(* script runs ("start analysis" presses and follow-up questions)           *)

MaxRuns == 2

MaxSessionTurns == 2

\* the files uploaded in these runs: one without a valid clause, two with
\* one clause (the second after a header that is dropped), one with two
SessionUploads ==
    { << "-", "-", "-" >>,
      << "DI", "YI", "TIAO", "JIA" >>,
      << "JIA", "JIA", "JIA", "JIA", "NL", "DI", "ER", "TIAO", "JIA" >>,
      << "DI", "YI", "TIAO", "JIA", "NL", "DI", "ER", "TIAO", "JIA" >> }

\* what the analyzer's collaborator hands back in these runs
SessionContents ==
    { [json |-> "invalid"], [json |-> "object", has_level |-> TRUE, risk_level |-> LOW] }

\* the follow-up questions: blank, and not blank
SessionQuestions == { << " " >>, << " ", "a" >> }

\* analyze_document(cs, llm) when no analyzer call raises, contents[i] being
\* what _generate returns for clause i
analyze_document(cs, contents) ==
    [i \in 1 .. Len(cs) |-> result_record(cs[i], analyze_clause(contents[i]))]

\* dict.get(k, [])
get(dict, k) == IF k \in DOMAIN dict THEN dict[k] ELSE << >>

\* dict[k] = v
put(dict, k, v) == [j \in DOMAIN dict \cup { k } |-> IF j = k THEN v ELSE dict[j]]

\* the number of turns in the histories of the keys 1..k of dict
RECURSIVE turns_upto(_, _)
turns_upto(dict, k) == IF k = 0 THEN 0 ELSE Len(get(dict, k)) + turns_upto(dict, k - 1)

\* the number of follow-up turns the session holds
session_turns ==
    Len(session.global_chat)
    + (IF session.results = Null THEN 0
       ELSE turns_upto(session.clause_qa, Len(session.results[1])))

\* the answer of answer_followup_clause / answer_followup_global when
\* _generate returns reply
followup_answer(q, reply) == IF followup_question(q) = << >> THEN ASK_FIRST ELSE reply

\* a script run ends: its local variables are gone
EndRun ==
    /\ pc' = "web_idle"
    /\ text' = << >>
    /\ raw' = << >>
    /\ headed' = << >>
    /\ clauses' = << >>
    /\ results' = << >>

\* the button is pressed: load_text_from_upload raises and main returns, or
\* the text is segmented and main returns when there is no clause
Press ==
    /\ pc = "web_idle"
    /\ run < MaxRuns
    /\ \E upload \in SessionUploads : \E readable \in BOOLEAN :
          IF ~readable \/ segment_clauses(upload) = << >>
          THEN UNCHANGED << pc, text, raw, headed, clauses >>
          ELSE /\ text' = upload
               /\ raw' = scan_text(upload)
               /\ headed' = strip_header(raw')
               /\ clauses' = filter_trivial(headed')
               /\ pc' = "web_segmented"
    /\ UNCHANGED << score, idx, inflight, started, completed, callLog, failedAt,
                    notified, results, report >>
    /\ UNCHANGED chatVars
    /\ UNCHANGED resegVars
    /\ UNCHANGED webVars

\* a store of the new clauses that leaves the follow-up histories alone
StoreClauses_KeepHistories ==
    /\ pc = "web_segmented"
    /\ session' = [session EXCEPT !.clauses = Some(clauses), !.results = Null]
    /\ run' = run + 1
    /\ pc' = "web_stored"
    /\ UNCHANGED << text, score >>
    /\ UNCHANGED segVars
    /\ UNCHANGED runVars
    /\ UNCHANGED chatVars
    /\ UNCHANGED resegVars

\* session clauses = clauses; results = None; clause_qa = {}; global_chat = []
StoreClauses ==
    /\ pc = "web_segmented"
    /\ session' = [clauses |-> Some(clauses), results |-> Null,
                   clause_qa |-> EmptyDict, global_chat |-> << >>]
    /\ run' = run + 1
    /\ pc' = "web_stored"
    /\ UNCHANGED << text, score >>
    /\ UNCHANGED segVars
    /\ UNCHANGED runVars
    /\ UNCHANGED chatVars
    /\ UNCHANGED resegVars

\* llm = LLMClient(): raises without an API key and main returns
MakeSessionClient ==
    /\ pc = "web_stored"
    /\ \E api_key_set \in BOOLEAN :
          IF api_key_set
          THEN /\ pc' = "web_analyzing"
               /\ UNCHANGED << text, raw, headed, clauses, results >>
          ELSE EndRun
    /\ UNCHANGED << score, idx, inflight, started, completed, callLog, failedAt,
                    notified, report >>
    /\ UNCHANGED chatVars
    /\ UNCHANGED resegVars
    /\ UNCHANGED webVars

\* analyze_document raises; main reports the error and returns
AnalysisFails ==
    /\ pc = "web_analyzing"
    /\ EndRun
    /\ UNCHANGED << score, idx, inflight, started, completed, callLog, failedAt,
                    notified, report >>
    /\ UNCHANGED chatVars
    /\ UNCHANGED resegVars
    /\ UNCHANGED webVars

\* results = analyze_document(clauses, llm, ...): every call returns
AnalysisReturns ==
    /\ pc = "web_analyzing"
    /\ \E contents \in [1 .. Len(clauses) -> SessionContents] :
          results' = analyze_document(clauses, contents)
    /\ pc' = "web_analyzed"
    /\ UNCHANGED << text, score, idx, inflight, started, completed, callLog, failedAt,
                    notified, report >>
    /\ UNCHANGED segVars
    /\ UNCHANGED chatVars
    /\ UNCHANGED resegVars
    /\ UNCHANGED webVars

\* session results = results; the results are shown and the run ends
StoreSessionResults ==
    /\ pc = "web_analyzed"
    /\ session' = [session EXCEPT !.results = Some(results)]
    /\ EndRun
    /\ UNCHANGED << score, idx, inflight, started, completed, callLog, failedAt,
                    notified, report, run >>
    /\ UNCHANGED chatVars
    /\ UNCHANGED resegVars

\* the results are on display: the session holds results and clauses
Shown ==
    /\ pc = "web_idle"
    /\ session.results # Null /\ session.results[1] # << >>
    /\ session.clauses # Null /\ session.clauses[1] # << >>

\* "ask" is pressed under clause i: the answer is appended to the clause's
\* history and the history is stored under key i. (When _generate raises,
\* the run ends with the session as it was.) A turn records, next to the
\* question and the answer, the run and the clause it was asked about.
SessionAskClause ==
    /\ Shown
    /\ session_turns < MaxSessionTurns
    /\ \E i \in 1 .. Len(session.results[1]) : \E q \in SessionQuestions : \E reply \in Replies :
          LET r == session.results[1][i]
              history_i == get(session.clause_qa, i)
              turn == [q |-> q, a |-> followup_answer(q, reply),
                       asked_in_run |-> run, asked_about |-> r.clause]
          IN session' = [session EXCEPT !.clause_qa = put(@, i, Append(history_i, turn))]
    /\ UNCHANGED << pc, text, score, run >>
    /\ UNCHANGED segVars
    /\ UNCHANGED runVars
    /\ UNCHANGED chatVars
    /\ UNCHANGED resegVars

\* a question is entered in the chat: the answer is appended to global_chat
SessionAskGlobal ==
    /\ Shown
    /\ session_turns < MaxSessionTurns
    /\ \E q \in SessionQuestions : \E reply \in Replies :
          LET turn == [q |-> q, a |-> followup_answer(q, reply), asked_in_run |-> run]
          IN /\ q # << >>
             /\ session' = [session EXCEPT !.global_chat = Append(@, turn)]
    /\ UNCHANGED << pc, text, score, run >>
    /\ UNCHANGED segVars
    /\ UNCHANGED runVars
    /\ UNCHANGED chatVars
    /\ UNCHANGED resegVars

InitSession ==
    /\ pc = "web_idle"
    /\ text = << >>
    /\ score = -1
    /\ IdleSeg /\ IdleRun /\ IdleChat
    /\ IdleReseg /\ IdleWeb

NextSession ==
    \/ Press
    \/ StoreClauses
    \/ MakeSessionClient
    \/ AnalysisFails
    \/ AnalysisReturns
    \/ StoreSessionResults
    \/ SessionAskClause
    \/ SessionAskGlobal

SpecSession == InitSession /\ [][NextSession]_vars

-----------------------------------------------------------------------------
(* Claims about segment_clauses (checked under SpecSeg)                    *)

\* the document as segment_clauses sees it
Normalized == normalize_newlines(text)

Style == detect_style(Normalized)

\* the lines of the document that is_clause_start classifies as boundaries
BoundaryLines ==
    { k \in 1 .. Len(split(Normalized)) :
        is_clause_start(split(Normalized)[k], Style.has_article, Style.has_chinese_num) }

Range(seq) == { seq[i] : i \in 1 .. Len(seq) }

\* sub is seq with some elements left out, order kept
RECURSIVE IsSubsequence(_, _)
IsSubsequence(sub, seq) ==
    IF sub = << >> THEN TRUE
    ELSE IF seq = << >> THEN FALSE
    ELSE IF Head(sub) = Head(seq) THEN IsSubsequence(Tail(sub), Tail(seq))
    ELSE IsSubsequence(sub, Tail(seq))

\* C1 (as claimed): in a document where the Article style is detected, only
\* lines that match the Article marker at line start are clause boundaries,
\* so every clause after the first begins with an Article marker.
C1_ArticlePrecedence ==
    (pc = "seg_done" /\ Style.has_article) =>
        /\ \A k \in BoundaryLines :
               re_match(ARTICLE_START_RE, strip(split(Normalized)[k]))
        /\ \A i \in 2 .. Len(raw) : re_match(ARTICLE_START_RE, raw[i])

\* C7: every clause segment_clauses returns is non-empty after trimming and
\* passes every rule of the trivial filter; "---" is never returned; a clause
\* with at least 4 ideographs and trimmed length at least 20 that is no lone
\* heading or bold line is kept; the survivors keep their relative order.
C7_NoTrivialClauseReturned ==
    pc = "seg_done" =>
        /\ \A i \in 1 .. Len(clauses) :
               /\ strip(clauses[i]) # << >>
               /\ strip(clauses[i]) # << "-", "-", "-" >>
               /\ ~is_trivial_clause(clauses[i])
               /\ ~heading_only(stripped_lines(strip(clauses[i])))
               /\ ~bold_only(stripped_lines(strip(clauses[i])))
               /\ ~short_fragment(strip(clauses[i]))
        /\ \A i \in 1 .. Len(headed) :
               (/\ han_count(strip(headed[i])) >= 4
                /\ Len(strip(headed[i])) >= 20
                /\ ~heading_only(stripped_lines(strip(headed[i])))
                /\ ~bold_only(stripped_lines(strip(headed[i]))))
               => headed[i] \in Range(clauses)
        /\ IsSubsequence(clauses, headed)

\* C7 witness: a long clause with 4 ideographs is kept while the filter
\* drops another clause of the same document
C7_Witness ==
    /\ pc = "seg_done"
    /\ Len(clauses) < Len(headed)
    /\ \E i \in 1 .. Len(clauses) :
           han_count(strip(clauses[i])) >= 4 /\ Len(strip(clauses[i])) >= 20

\* C8: a document none of whose lines is a clause boundary yields the whole
\* trimmed text as its only clause, or no clause when that text is blank or
\* trivial, and header stripping removes nothing.
C8_ZeroBoundary ==
    (pc = "seg_done" /\ BoundaryLines = {}) =>
        /\ Len(raw) <= 1
        /\ headed = raw
        /\ clauses = IF is_trivial_clause(strip(Normalized))
                     THEN << >>
                     ELSE << strip(Normalized) >>

\* C8 witness: a several-line document citing an Article, without any
\* boundary line, returned as one clause
C8_Witness ==
    /\ pc = "seg_done"
    /\ BoundaryLines = {}
    /\ Style.has_article
    /\ Len(split(Normalized)) >= 2
    /\ clauses = << strip(Normalized) >>

\* t[a..b] is "DI", blanks, one or more numerals or digits, blanks, "TIAO"
IsArticleMarkerAt(t, a, b) ==
    /\ t[a] = "DI"
    /\ t[b] = "TIAO"
    /\ \E m \in (a + 1) .. (b - 1) : \E n \in m .. (b - 1) :
           /\ \A j \in (a + 1) .. (m - 1) : t[j] \in Space
           /\ \A j \in m .. n : t[j] \in NumeralOrDigit
           /\ \A j \in (n + 1) .. (b - 1) : t[j] \in Space

\* an Article marker stands somewhere in t
HasArticleMarker(t) ==
    \E a \in 1 .. Len(t) :
        t[a] = "DI" /\ \E b \in (a + 2) .. Len(t) : IsArticleMarkerAt(t, a, b)

\* a line of t starts with CJK numerals, blanks and an enumeration separator
HasLineStartEnumeration(t) ==
    \E a \in 1 .. Len(t) :
        /\ a = 1 \/ t[a - 1] = "NL"
        /\ t[a] \in CjkNumeral
        /\ \E n \in (a + 1) .. Len(t) :
               /\ t[n] \in EnumSeparator
               /\ \E m \in a .. (n - 1) :
                      /\ \A j \in a .. m : t[j] \in CjkNumeral
                      /\ \A j \in (m + 1) .. (n - 1) : t[j] \in Space

\* the header-stripping step of segment_clauses has run
HeaderStepDone == pc \in { "seg_filter", "seg_done" }

\* C11: header stripping drops the first raw clause if and only if the line
\* scan produced at least two raw clauses and the first holds neither an
\* Article marker anywhere nor a CJK-enumeration marker at the start of one of
\* its lines; otherwise it removes nothing; it never removes another clause,
\* and a single raw clause is never lost to it.
C11_HeaderStripping ==
    HeaderStepDone =>
        LET unmarked == raw # << >> /\ ~HasArticleMarker(raw[1])
                                   /\ ~HasLineStartEnumeration(raw[1])
        IN /\ (Len(raw) >= 2 /\ unmarked) => headed = Tail(raw)
           /\ ~(Len(raw) >= 2 /\ unmarked) => headed = raw
           /\ \A i \in 2 .. Len(raw) : headed[i - (Len(raw) - Len(headed))] = raw[i]
           /\ Len(raw) = 1 => headed = raw

\* C11 witness: a non-trivial unmarked first clause of several lines, dropped
\* although the trivial filter would have kept it
C11_Witness ==
    /\ pc = "seg_done"
    /\ Len(raw) >= 2
    /\ headed = Tail(raw)
    /\ ~is_trivial_clause(raw[1])
    /\ Len(split(raw[1])) >= 2

\* the first raw clause begins with a line that is_clause_start classifies as
\* a boundary under the document's style
FirstClauseStartsAtBoundary ==
    /\ raw # << >>
    /\ is_clause_start(split(raw[1])[1], Style.has_article, Style.has_chinese_num)

\* C13 (as claimed): under every style, a first raw clause that begins with
\* a boundary line is not removed by header stripping.
C13_MarkedFirstClauseKept ==
    (HeaderStepDone /\ FirstClauseStartsAtBoundary) =>
        (headed # << >> /\ headed[1] = raw[1])

-----------------------------------------------------------------------------
(* Claim about re-segmentation (checked under SpecReseg)                   *)

\* C12 (as claimed): segment_clauses applied to a clause it returned, with
\* the clause's leading boundary marker or without it, yields one clause at
\* most, also when the clause holds sub-item lines such as "1." or "(1)".
C12_ResegmentationIdempotent ==
    pc \in { "reseg_kept", "reseg_unmarked" } => Len(pieces) <= 1

-----------------------------------------------------------------------------
(* Claims about one analysis run (checked under Spec)                      *)

\* the four canonical risk levels
CanonicalLevels == { LOW, MEDIUM, HIGH, UNKNOWN }

\* the run is over: main has returned or gone on to show the results
RunEnded == pc \in { "analysis_error", "analyzed", "reported" }

\* C2 (as claimed): a failed analyzer call never aborts the run; the failed
\* clause gets a record with risk level Unknown, the later clauses are still
\* analyzed, and the run ends with one record per clause.
C2_FailureNotFatal ==
    /\ pc # "analysis_error"
    /\ \A i \in failedAt : i <= Len(results) => results[i].risk_level = UNKNOWN
    /\ (RunEnded /\ failedAt # {}) =>
           /\ Len(results) = Len(clauses)
           /\ started = Len(clauses)

\* C3 (as claimed): every risk level stored in a result, and every risk level
\* the report prints, is one of the four canonical values.
C3_RiskLevelClosed ==
    /\ \A i \in 1 .. Len(results) : results[i].risk_level \in CanonicalLevels
    /\ \A i \in 1 .. Len(report) : report[i].risk_level \in CanonicalLevels

\* C5 (as claimed): the analyzer is called once per clause, in clause order,
\* one call at a time; every run of analyze_document ends with exactly one
\* result per clause, results[i].clause = clauses[i]; the report has the
\* sections 1..n in that order.
C5_OrderExactlyOnce ==
    /\ started <= completed + 1
    /\ Len(callLog) = started
    /\ \A k \in 1 .. Len(callLog) : k <= Len(clauses) /\ callLog[k] = clauses[k]
    /\ \A i \in 1 .. Len(results) : i <= Len(clauses) /\ results[i].clause = clauses[i]
    /\ RunEnded =>
           /\ callLog = clauses
           /\ Len(results) = Len(clauses)
    /\ pc = "reported" =>
           /\ Len(report) = Len(clauses)
           /\ \A i \in 1 .. Len(report) :
                  report[i].number = i /\ report[i].clause = clauses[i]

\* C6: when segment_clauses returns no clause the handler stops at the empty
\* check: no client is made, analyze_document is not entered, no analyzer
\* call begins, no progress notification is emitted, no result or report is
\* built.
C6_EmptySegmentationHalts ==
    (pc \notin { "pressed", "ingest_error" } /\ clauses = << >>) =>
        /\ pc \in { "segmented", "halted_empty" }
        /\ started = 0
        /\ callLog = << >>
        /\ notified = << >>
        /\ results = << >>
        /\ report = << >>

\* C6 witness: a non-empty upload whose clauses are all filtered out, halted
C6_Witness ==
    /\ pc = "halted_empty"
    /\ text # << >>
    /\ headed # << >>
    /\ clauses = << >>

\* C10 (as claimed): a notification is emitted only after its clause's
\* analyzer call has completed, so the notifications never outnumber the
\* completed calls.
C10_NotifyAfterCall == Len(notified) <= completed

\* C10 (amended): the notification (i, total) is emitted before the analyzer
\* call for clause i begins and after the call for clause i-1 has completed:
\* the notifications are never fewer than the calls begun and exceed the
\* completed calls by at most one.
C10_NotifyBeforeCall ==
    /\ started <= Len(notified)
    /\ Len(notified) <= completed + 1
    /\ \A k \in 1 .. Len(notified) : notified[k] = << k, Len(clauses) >>
    /\ pc = "wait" => inflight = Len(notified)

\* C10 witness: the second notification is out, the second call has not begun
C10_Witness ==
    /\ Len(notified) = 2
    /\ completed = 1
    /\ started = 1
    /\ pc = "call"

-----------------------------------------------------------------------------
(* Claim about compute_overall_risk_score (checked under SpecScore)        *)

\* a score computed in exact arithmetic
compute_overall_risk_score_exact(rs) ==
    LET scores == collect_scores(rs)
    IN IF scores = << >> THEN 0
       ELSE Max(0, Min(100, ((sum(scores) - Len(scores)) * 25) \div Len(scores)))

\* C4 (as claimed): the score is the exact value of (mean - 1) / 4 * 100
\* truncated toward zero, an integer in 0..100, with the mean taken over the
\* Low/Medium/High results only; 0 when there is none.
C4_ExactTruncatedScore ==
    pc = "scored" =>
        /\ score \in 0 .. 100
        /\ score = compute_overall_risk_score_exact(results)

-----------------------------------------------------------------------------
(* Claim about the follow-up requests (checked under SpecFollowup)         *)

\* absent, empty or whitespace-only
IsBlankQuestion(q) == q = None \/ \A i \in 1 .. Len(q) : q[i] \in Space

\* C9: a follow-up request whose question is absent, empty or whitespace-only
\* returns the fixed message and sends nothing to the collaborator, whatever
\* the history.
C9_BlankShortCircuit ==
    [][ (IsBlankQuestion(question') /\ << question, answer, history, generated >>' #
                                       << question, answer, history, generated >>)
        => (generated' = generated /\ answer' = ASK_FIRST) ]_vars

\* C9 witness: a whitespace-only question answered with the fixed message
\* after a question that did go to the collaborator
C9_Witness ==
    /\ question = << "NL", " " >>
    /\ answer = ASK_FIRST
    /\ Len(generated) = 1
    /\ Len(history.clause) = 2
    /\ history.clause[1].a # ASK_FIRST

-----------------------------------------------------------------------------
(* Claim about the session of the web front end (checked under SpecSession) *)

\* the session's results belong to the session's clauses
ResultsOfStoredClauses ==
    session.results # Null =>
        /\ session.clauses # Null
        /\ Len(session.results[1]) = Len(session.clauses[1])
        /\ \A i \in 1 .. Len(session.results[1]) :
               session.results[1][i].clause = session.clauses[1][i]

\* every key of clause_qa is the index of a result, and its turns were
\* asked in the current run about that result's clause
HistoriesOfCurrentResults ==
    \A k \in DOMAIN session.clause_qa :
        /\ session.results # Null
        /\ k \in 1 .. Len(session.results[1])
        /\ \A j \in 1 .. Len(session.clause_qa[k]) :
               /\ session.clause_qa[k][j].asked_in_run = run
               /\ session.clause_qa[k][j].asked_about = session.results[1][k].clause

\* from the store of new clauses until their results are stored, the session
\* holds the new clauses, no results and no follow-up history
ClearedBeforeAnalysis ==
    pc \in { "web_stored", "web_analyzing", "web_analyzed" } =>
        /\ session.clauses = Some(clauses)
        /\ session.results = Null
        /\ session.clause_qa = EmptyDict
        /\ session.global_chat = << >>

\* C14: after any sequence of presses and follow-up questions, results that
\* are not None were produced from the stored clauses (same length,
\* results[i].clause = clauses[i]); every key of clause_qa is an index of the
\* results and its history was recorded against the current results; an
\* analysis that stores new clauses has cleared results, clause_qa and
\* global_chat before it analyzes.
C14_SessionConsistent ==
    /\ ResultsOfStoredClauses
    /\ HistoriesOfCurrentResults
    /\ ClearedBeforeAnalysis
    /\ \A j \in 1 .. Len(session.global_chat) : session.global_chat[j].asked_in_run = run

\* C14 witness: the results of a second analysis are shown, with a follow-up
\* history under one of its clauses and a turn in the chat
C14_Witness ==
    /\ Shown
    /\ run = 2
    /\ DOMAIN session.clause_qa # {}
    /\ session.global_chat # << >>

====
